---- MODULE Spec2Model ----
(***************************************************************************)
(* Model of package orderedlist (orderedlist.go): a list of key-value      *)
(* pairs, keys strings, values unsigned integers, kept ordered from the    *)
(* lowest value to the highest, with a map that records the keys present.  *)
(*                                                                         *)
(* An OrderedList is the record [Bookkeeping, Rec].  Bookkeeping is the    *)
(* Go map[string]bool, a function whose domain is the set of keys stored   *)
(* in the map.  Rec is the Go slice []Record, a sequence; the Go code      *)
(* counts positions from 0, and so do the indexes below: position i of    *)
(* the slice is element i + 1 of the sequence.                             *)
(*                                                                         *)
(* The methods are operators from the list before the call to the list    *)
(* after it and the values returned.  One single-threaded caller owns one  *)
(* list `ol`; it makes one call at a time, and `call` is the call it has   *)
(* just made: the method, the arguments, the list as it was before the     *)
(* call and what the method returned.                                      *)
(***************************************************************************)
EXTENDS Integers, Sequences, FiniteSets, TLC

VARIABLES ol, call

vars == <<ol, call>>

----
(* Bounds of the model. *)

\* Number of distinct keys the caller uses.
NumKeys == 3

\* Values are 0 .. MaxValue (uint64 in the code; no arithmetic is done on them).
MaxValue == 2

\* A list passed to Merge holds at most MaxSourceLen records.
MaxSourceLen == 2

KeyNames == <<"a", "b", "c", "d", "e", "f">>

Keys == {KeyNames[i] : i \in 1..NumKeys}

Values == 0..MaxValue

----
(* Errors. *)

nil == "nil"

DuplicateKeyError == "key already exists"

KeyNotFoundError == "key does not exists"

\* The run-time panic of an index expression outside the slice.
IndexOutOfRange == "panic: index out of range"

----
(* Types. *)

Record(key, value) == [Key |-> key, Value |-> value]

\* Record{}: the zero value of the struct.
ZeroRecord == [Key |-> "", Value |-> 0]

\* New returns new (empty) instance of ordered list.
New == [Bookkeeping |-> [k \in {} |-> TRUE], Rec |-> <<>>]

\* Lookup as it would be if the map were never consulted.
LookupMissing(bookkeeping, key) == FALSE

\* ol.Bookkeeping[key]: a key the map does not hold reads as false.
Lookup(bookkeeping, key) ==
    IF key \in DOMAIN bookkeeping THEN bookkeeping[key] ELSE FALSE

\* ol.Rec[i], i counted from 0.
At(rec, i) == rec[i + 1]

----
(* getPosition returns proper position (index) to be placed into struct:   *)
(* the first position whose value is not below `value`, -1 when the loop   *)
(* ends without one.                                                       *)

\* getPosition as it would be without the break: the last such position.
RECURSIVE getPositionFromNoBreak(_, _, _)
getPositionFromNoBreak(rec, value, i) ==
    IF i >= Len(rec) THEN -1
    ELSE LET later == getPositionFromNoBreak(rec, value, i + 1)
         IN  IF later # -1 THEN later
             ELSE IF value <= At(rec, i).Value THEN i
             ELSE -1

\* getPosition as it would be with `value < record.Value`.
RECURSIVE getPositionFromStrict(_, _, _)
getPositionFromStrict(rec, value, i) ==
    IF i >= Len(rec) THEN -1
    ELSE IF value < At(rec, i).Value THEN i
    ELSE getPositionFromStrict(rec, value, i + 1)

\* getPosition as it would be with index starting at 0 instead of -1.
RECURSIVE getPositionFromZero(_, _, _)
getPositionFromZero(rec, value, i) ==
    IF i >= Len(rec) THEN 0
    ELSE IF value <= At(rec, i).Value THEN i
    ELSE getPositionFromZero(rec, value, i + 1)

RECURSIVE getPositionFrom(_, _, _)
getPositionFrom(rec, value, i) ==
    IF i >= Len(rec) THEN -1
    ELSE IF value <= At(rec, i).Value THEN i
    ELSE getPositionFrom(rec, value, i + 1)

getPosition(l, value) == getPositionFrom(l.Rec, value, 0)

(* getIndexByKey returns index of key-value pair in array by key. *)

\* getIndexByKey as it would be if the loop stopped one record early.
RECURSIVE getIndexByKeyFromShort(_, _, _)
getIndexByKeyFromShort(rec, key, i) ==
    IF i >= Len(rec) - 1 THEN [index |-> -1, err |-> KeyNotFoundError]
    ELSE IF At(rec, i).Key = key THEN [index |-> i, err |-> nil]
    ELSE getIndexByKeyFromShort(rec, key, i + 1)

RECURSIVE getIndexByKeyFrom(_, _, _)
getIndexByKeyFrom(rec, key, i) ==
    IF i >= Len(rec) THEN [index |-> -1, err |-> KeyNotFoundError]
    ELSE IF At(rec, i).Key = key THEN [index |-> i, err |-> nil]
    ELSE getIndexByKeyFrom(rec, key, i + 1)

getIndexByKey(l, key) == getIndexByKeyFrom(l.Rec, key, 0)

----
(* Insert inserts a key-value pair into the struct. *)

\* The insertion as it would be without the copy.
InsertAtNoCopy(rec, index, r) ==
    [Append(rec, ZeroRecord) EXCEPT ![index + 1] = r]

\* ol.Rec = append(ol.Rec, Record{}); copy(ol.Rec[index+1:], ol.Rec[index:]);
\* ol.Rec[index] = Record{key, value}
InsertAt(rec, index, r) ==
    LET grown == Append(rec, ZeroRecord)
        copied == [i \in 1..Len(grown) |->
                     IF i - 1 >= index + 1 THEN grown[i - 1] ELSE grown[i]]
    IN  [copied EXCEPT ![index + 1] = r]

\* Insert as it would be if it did not register the key.
RegisterNothing(bookkeeping, key) == bookkeeping

\* ol.Bookkeeping[key] = true
Register(bookkeeping, key) ==
    [k \in DOMAIN bookkeeping \cup {key} |->
        IF k = key THEN TRUE ELSE bookkeeping[k]]

\* Insert as it would be if it gave a present key the new value.
InsertOverwrite(l, key, value) ==
    IF Lookup(l.Bookkeeping, key)
    THEN [ol |-> [Bookkeeping |-> l.Bookkeeping,
                  Rec |-> [i \in 1..Len(l.Rec) |->
                             IF l.Rec[i].Key = key THEN Record(key, value)
                                                   ELSE l.Rec[i]]],
          err |-> nil]
    ELSE LET index == getPosition(l, value)
             rec == IF index = -1
                    THEN Append(l.Rec, Record(key, value))
                    ELSE InsertAt(l.Rec, index, Record(key, value))
         IN  [ol |-> [Bookkeeping |-> Register(l.Bookkeeping, key), Rec |-> rec],
              err |-> nil]

Insert(l, key, value) ==
    IF Lookup(l.Bookkeeping, key)
    THEN [ol |-> l, err |-> DuplicateKeyError]
    ELSE LET index == getPosition(l, value)
             rec == IF index = -1
                    THEN Append(l.Rec, Record(key, value))
                    ELSE InsertAt(l.Rec, index, Record(key, value))
         IN  [ol |-> [Bookkeeping |-> Register(l.Bookkeeping, key), Rec |-> rec],
              err |-> nil]

(* Get returns value of the provided key. *)

Get(l, key) ==
    LET found == getIndexByKey(l, key)
    IN  IF found.err # nil
        THEN [value |-> 0, err |-> found.err]
        ELSE [value |-> At(l.Rec, found.index).Value, err |-> nil]

(* GetLowest and GetHighest index the slice without a check of its length. *)

GetLowest(l) ==
    IF Len(l.Rec) = 0
    THEN [value |-> 0, err |-> IndexOutOfRange]
    ELSE [value |-> At(l.Rec, 0).Value, err |-> nil]

\* GetHighest as it would be if it read the first record.
GetHighestFirst(l) ==
    IF Len(l.Rec) = 0
    THEN [value |-> 0, err |-> IndexOutOfRange]
    ELSE [value |-> At(l.Rec, 0).Value, err |-> nil]

GetHighest(l) ==
    IF Len(l.Rec) - 1 < 0
    THEN [value |-> 0, err |-> IndexOutOfRange]
    ELSE [value |-> At(l.Rec, Len(l.Rec) - 1).Value, err |-> nil]

(* Remove removes a key-value pair by key. *)

\* The removal as it would be with the two slices taken one position late.
RemoveAtNext(rec, index) ==
    SubSeq(rec, 1, index + 1) \o SubSeq(rec, index + 3, Len(rec))

\* append(ol.Rec[:index], ol.Rec[index+1:]...)
RemoveAt(rec, index) ==
    SubSeq(rec, 1, index) \o SubSeq(rec, index + 2, Len(rec))

\* Remove as it would be if it did not delete the key from the map.
DeleteNothing(bookkeeping, key) == bookkeeping

\* delete(ol.Bookkeeping, key)
Delete(bookkeeping, key) ==
    [k \in DOMAIN bookkeeping \ {key} |-> bookkeeping[k]]

Remove(l, key) ==
    LET found == getIndexByKey(l, key)
    IN  IF found.err # nil
        THEN [ol |-> l, err |-> found.err]
        ELSE [ol |-> [Bookkeeping |-> Delete(l.Bookkeeping, key),
                      Rec |-> RemoveAt(l.Rec, found.index)],
              err |-> nil]

(* Update updates value by key: Remove, then Insert. *)

\* Update as it would be if it patched the value field in place.
UpdateInPlace(l, key, value) ==
    LET found == getIndexByKey(l, key)
    IN  IF found.err # nil
        THEN [ol |-> l, err |-> found.err]
        ELSE [ol |-> [Bookkeeping |-> l.Bookkeeping,
                      Rec |-> [l.Rec EXCEPT ![found.index + 1].Value = value]],
              err |-> nil]

Update(l, key, value) ==
    LET removed == Remove(l, key)
    IN  IF removed.err # nil
        THEN [ol |-> removed.ol, err |-> removed.err]
        ELSE LET inserted == Insert(removed.ol, key, value)
             IN  IF inserted.err # nil
                 THEN [ol |-> inserted.ol, err |-> inserted.err]
                 ELSE [ol |-> inserted.ol, err |-> nil]

(* Merge merges list passed to the parameter into the receiver: it ranges  *)
(* over source.Rec and inserts each record, the error of Insert dropped.   *)
(*                                                                         *)
(* Receiver and source are pointers.  `lists` is the memory they point     *)
(* into, a function from pointers to lists; ol and source are two pointers *)
(* of its domain, the same pointer when a list is merged into itself.      *)
(* Insert writes the list its receiver points to and no other.  The range  *)
(* clause evaluates source.Rec once, before the first iteration: rec is    *)
(* that slice, and the loop runs over its length whatever Insert does.     *)

\* Merge as it would be if it returned at the first error of Insert.
RECURSIVE MergeFromStopOnError(_, _, _, _)
MergeFromStopOnError(lists, olPtr, rec, i) ==
    IF i >= Len(rec) THEN lists
    ELSE LET inserted == Insert(lists[olPtr], At(rec, i).Key, At(rec, i).Value)
         IN  IF inserted.err # nil THEN lists
             ELSE MergeFromStopOnError([lists EXCEPT ![olPtr] = inserted.ol],
                                       olPtr, rec, i + 1)

\* Merge as it would be if it took the records of the source out as it went.
RECURSIVE MergeFromDraining(_, _, _, _)
MergeFromDraining(lists, olPtr, rec, i) ==
    IF i >= Len(rec) THEN lists
    ELSE LET inserted == Insert(lists[olPtr], At(rec, i).Key, At(rec, i).Value)
             written == [lists EXCEPT ![olPtr] = inserted.ol]
         IN  MergeFromDraining(
                 [p \in DOMAIN written |->
                     IF p = olPtr THEN written[p]
                     ELSE Remove(written[p], At(rec, i).Key).ol],
                 olPtr, rec, i + 1)

\* Merge as it would be if it ranged over the source from its last record.
RECURSIVE MergeFromBackwards(_, _, _, _)
MergeFromBackwards(lists, olPtr, rec, i) ==
    IF i >= Len(rec) THEN lists
    ELSE LET record == At(rec, Len(rec) - 1 - i)
         IN  MergeFromBackwards(
                 [lists EXCEPT ![olPtr] = Insert(@, record.Key, record.Value).ol],
                 olPtr, rec, i + 1)

RECURSIVE MergeFrom(_, _, _, _)
MergeFrom(lists, olPtr, rec, i) ==
    IF i >= Len(rec) THEN lists
    ELSE MergeFrom(
             [lists EXCEPT
                 ![olPtr] = Insert(@, At(rec, i).Key, At(rec, i).Value).ol],
             olPtr, rec, i + 1)

Merge(lists, olPtr, sourcePtr) ==
    MergeFrom(lists, olPtr, lists[sourcePtr].Rec, 0)

----
(* The lists a caller can pass to Merge: those it can build from New() by  *)
(* at most MaxSourceLen calls of Insert.                                   *)

RECURSIVE ListsAfter(_)
ListsAfter(n) ==
    IF n = 0 THEN {New}
    ELSE LET prev == ListsAfter(n - 1)
         IN  prev \cup {Insert(l, k, v).ol : l \in prev, k \in Keys, v \in Values}

SourceLists == ListsAfter(MaxSourceLen)

----
(* The caller. *)

\* `source` is the list passed to Merge as it was before the call, `after`
\* that list as it is after the call, `self` whether it was the receiver.
NoCall ==
    [op |-> "none", key |-> "", value |-> 0, source |-> New, pre |-> New,
     err |-> nil, ret |-> 0, after |-> New, self |-> FALSE]

Called(op, key, value, source, err, ret) ==
    [op |-> op, key |-> key, value |-> value, source |-> source, pre |-> ol,
     err |-> err, ret |-> ret, after |-> source, self |-> FALSE]

Init ==
    /\ ol = New
    /\ call = NoCall

DoInsert ==
    /\ call = NoCall
    /\ \E key \in Keys, value \in Values :
         LET r == Insert(ol, key, value)
         IN  /\ ol' = r.ol
             /\ call' = Called("Insert", key, value, New, r.err, 0)

DoGet ==
    /\ call = NoCall
    /\ \E key \in Keys :
         LET r == Get(ol, key)
         IN  /\ ol' = ol
             /\ call' = Called("Get", key, 0, New, r.err, r.value)

DoGetLowest ==
    /\ call = NoCall
    /\ LET r == GetLowest(ol)
       IN  /\ ol' = ol
           /\ call' = Called("GetLowest", "", 0, New, r.err, r.value)

DoGetHighest ==
    /\ call = NoCall
    /\ LET r == GetHighest(ol)
       IN  /\ ol' = ol
           /\ call' = Called("GetHighest", "", 0, New, r.err, r.value)

DoRemove ==
    /\ call = NoCall
    /\ \E key \in Keys :
         LET r == Remove(ol, key)
         IN  /\ ol' = r.ol
             /\ call' = Called("Remove", key, 0, New, r.err, 0)

DoUpdate ==
    /\ call = NoCall
    /\ \E key \in Keys, value \in Values :
         LET r == Update(ol, key, value)
         IN  /\ ol' = r.ol
             /\ call' = Called("Update", key, value, New, r.err, 0)

\* ol.Merge(&source), source another list than ol.
DoMerge ==
    /\ call = NoCall
    /\ \E source \in SourceLists :
         LET r == Merge([ol |-> ol, source |-> source], "ol", "source")
         IN  /\ ol' = r.ol
             /\ call' = [Called("Merge", "", 0, source, nil, 0)
                            EXCEPT !.after = r.source]

\* ol.Merge(&ol)
DoMergeSelf ==
    /\ call = NoCall
    /\ LET r == Merge([ol |-> ol], "ol", "ol")
       IN  /\ ol' = r.ol
           /\ call' = [Called("Merge", "", 0, ol, nil, 0)
                          EXCEPT !.after = r.ol, !.self = TRUE]

\* The call has returned and the caller goes on to its next call.
Return ==
    /\ call # NoCall
    /\ call' = NoCall
    /\ UNCHANGED ol

Next ==
    \/ DoInsert
    \/ DoGet
    \/ DoGetLowest
    \/ DoGetHighest
    \/ DoRemove
    \/ DoUpdate
    \/ DoMerge
    \/ DoMergeSelf
    \/ Return

Spec == Init /\ [][Next]_vars

----
(* Helpers of the properties. *)

KeysOf(rec) == {rec[i].Key : i \in 1..Len(rec)}

MinOf(S) == CHOOSE x \in S : \A y \in S : x <= y

\* The records of rec other than the one of `key`, in their order.
Others(rec, key) == SelectSeq(rec, LAMBDA r : r.Key # key)

\* The positions (from 0) of rec whose value is at least `value`.
NotBelow(rec, value) == {i \in 0..Len(rec) - 1 : At(rec, i).Value >= value}

\* rec is `before` with the record r put at position p (from 0).
PlacedAt(rec, before, p, r) ==
    /\ Len(rec) = Len(before) + 1
    /\ At(rec, p) = r
    /\ \A j \in 0..Len(before) - 1 :
         IF j < p THEN At(rec, j) = At(before, j)
                  ELSE At(rec, j + 1) = At(before, j)

Present(l, key) == key \in DOMAIN l.Bookkeeping

----
(* C1. Sort invariant: in every state reachable from New() by Insert,      *)
(* Remove, Update and Merge calls, successful or failing, the records are  *)
(* in ascending order of value: Rec[i].Value <= Rec[i+1].Value for every   *)
(* adjacent pair.                                                          *)
C1_SortInvariant ==
    \A i \in 1..Len(ol.Rec) - 1 : ol.Rec[i].Value <= ol.Rec[i + 1].Value

\* A full list of three values in order, reached by an Update that moved a record.
C1_Witness ==
    /\ call.op = "Update"
    /\ call.err = nil
    /\ Len(ol.Rec) >= 3
    /\ ol.Rec[1].Value < ol.Rec[2].Value
    /\ ol.Rec[2].Value < ol.Rec[3].Value
    /\ ol.Rec # call.pre.Rec

(* C2. Membership and sequence agree: the keys of the Bookkeeping map are  *)
(* exactly the keys of the records of Rec, and there are as many of them   *)
(* as records.                                                             *)
C2_MembershipConsistent ==
    /\ DOMAIN ol.Bookkeeping = KeysOf(ol.Rec)
    /\ Cardinality(DOMAIN ol.Bookkeeping) = Len(ol.Rec)
    /\ \A k \in DOMAIN ol.Bookkeeping : ol.Bookkeeping[k]

\* A key has been removed from a list that keeps other keys.
C2_Witness ==
    /\ call.op = "Remove"
    /\ call.err = nil
    /\ Len(ol.Rec) >= 2
    /\ call.key \notin DOMAIN ol.Bookkeeping

(* C3. Key uniqueness: no key is the key of two records of Rec. *)
C3_KeyUnique ==
    \A i, j \in 1..Len(ol.Rec) :
        ol.Rec[i].Key = ol.Rec[j].Key => i = j

\* A Merge whose source shares a key with the receiver and brings a new one.
C3_Witness ==
    /\ call.op = "Merge"
    /\ KeysOf(call.source.Rec) \cap KeysOf(call.pre.Rec) # {}
    /\ KeysOf(call.source.Rec) \ KeysOf(call.pre.Rec) # {}
    /\ Len(ol.Rec) > Len(call.pre.Rec)

(* C4. Insert of a key that is present fails with the duplicate-key error, *)
(* whatever the value (the key's own value included), and leaves Rec and   *)
(* Bookkeeping as they were.                                               *)
C4_InsertDuplicate ==
    (call.op = "Insert" /\ Present(call.pre, call.key)) =>
        /\ call.err = DuplicateKeyError
        /\ ol.Rec = call.pre.Rec
        /\ ol.Bookkeeping = call.pre.Bookkeeping

\* Insert of a present key with the value it already has, rejected.
C4_Witness ==
    /\ call.op = "Insert"
    /\ Present(call.pre, call.key)
    /\ Get(call.pre, call.key).value = call.value
    /\ Len(call.pre.Rec) >= 2
    /\ call.err = DuplicateKeyError

(* C5. Insert of a key that is not present succeeds; the new record is at  *)
(* the smallest position i with Rec[i].Value >= value in the list before   *)
(* the call, the records that were at positions >= i are one position up,  *)
(* those below i stay, the list is one longer and the key is registered in *)
(* the map.                                                                *)
C5_InsertPosition ==
    (call.op = "Insert" /\ ~Present(call.pre, call.key)) =>
        /\ call.err = nil
        /\ \E p \in 0..Len(call.pre.Rec) :
             /\ NotBelow(call.pre.Rec, call.value) # {}
                    => p = MinOf(NotBelow(call.pre.Rec, call.value))
             /\ PlacedAt(ol.Rec, call.pre.Rec, p, Record(call.key, call.value))
        /\ DOMAIN ol.Bookkeeping = DOMAIN call.pre.Bookkeeping \cup {call.key}
        /\ ol.Bookkeeping[call.key]

\* An insertion strictly inside the list: records below it and at or above it.
C5_Witness ==
    /\ call.op = "Insert"
    /\ call.err = nil
    /\ Len(call.pre.Rec) >= 2
    /\ At(ol.Rec, 1) = Record(call.key, call.value)
    /\ At(ol.Rec, 0).Value < call.value
    /\ At(ol.Rec, 2).Value >= call.value

(* C6. Round trip: after a successful Insert(k, v), Get(k) returns v and   *)
(* no error; and Get(k) returns the same value after every further call    *)
(* that is not a successful Remove or Update of k (failed Inserts of k and *)
(* Merges of sources that hold k with another value included).             *)
C6_RoundTrip ==
    [][ /\ (call'.op = "Insert" /\ call'.err = nil) =>
               Get(ol', call'.key) = [value |-> call'.value, err |-> nil]
        /\ \A k \in Keys :
               ( /\ Get(ol, k).err = nil
                 /\ ~ ( /\ call'.op \in {"Remove", "Update"}
                        /\ call'.key = k
                        /\ call'.err = nil ) )
               => Get(ol', k) = Get(ol, k)
      ]_vars

\* A Merge whose source holds a key of the receiver with another value.
C6_Witness ==
    /\ call.op = "Merge"
    /\ \E k \in KeysOf(call.pre.Rec) \cap KeysOf(call.source.Rec) :
         /\ Get(call.source, k).value # Get(call.pre, k).value
         /\ Get(ol, k) = Get(call.pre, k)
         /\ Get(ol, k).err = nil

(* C7. A successful Remove(k) deletes the record of k and nothing else:    *)
(* the key leaves the map, the list is one shorter, the other records keep *)
(* key, value and order, Get(k) then fails with the key-not-found error    *)
(* and Insert(k, v) then succeeds.                                         *)
C7_RemoveExact ==
    (call.op = "Remove" /\ call.err = nil) =>
        /\ ol.Bookkeeping = [k \in DOMAIN call.pre.Bookkeeping \ {call.key} |->
                                call.pre.Bookkeeping[k]]
        /\ Present(call.pre, call.key)
        /\ Len(ol.Rec) = Len(call.pre.Rec) - 1
        /\ ol.Rec = Others(call.pre.Rec, call.key)
        /\ Get(ol, call.key) = [value |-> 0, err |-> KeyNotFoundError]
        /\ \A v \in Values : Insert(ol, call.key, v).err = nil

\* The middle record of three removed.
C7_Witness ==
    /\ call.op = "Remove"
    /\ call.err = nil
    /\ Len(call.pre.Rec) = 3
    /\ At(call.pre.Rec, 1).Key = call.key
    /\ ol.Rec = <<At(call.pre.Rec, 0), At(call.pre.Rec, 2)>>

(* C8. Get(k) and Remove(k) of a key that is not present fail with the     *)
(* key-not-found error and leave Rec and Bookkeeping unchanged; Get(k)     *)
(* succeeds exactly when k is in the map.                                  *)
C8_KeyNotFound ==
    /\ (call.op \in {"Get", "Remove"} /\ ~Present(call.pre, call.key)) =>
          /\ call.err = KeyNotFoundError
          /\ ol.Rec = call.pre.Rec
          /\ ol.Bookkeeping = call.pre.Bookkeeping
    /\ call.op = "Get" => (call.err = nil <=> Present(call.pre, call.key))
    /\ \A k \in Keys : Get(ol, k).err = nil <=> Present(ol, k)

\* Remove of an absent key from a list that holds other keys.
C8_Witness ==
    /\ call.op = "Remove"
    /\ ~Present(call.pre, call.key)
    /\ Len(call.pre.Rec) >= 2
    /\ call.err = KeyNotFoundError

(* C9. Update(k, v) fails if and only if k is not present, and then with   *)
(* the key-not-found error and the list unchanged.  When the Remove inside *)
(* Update succeeds, the Insert after it does not fail: no Update returns   *)
(* an error with the key removed.                                          *)
C9_UpdateFailure ==
    call.op = "Update" =>
        /\ call.err # nil <=> ~Present(call.pre, call.key)
        /\ call.err # nil =>
              /\ call.err = KeyNotFoundError
              /\ ol = call.pre
        /\ Remove(call.pre, call.key).err = nil =>
              Insert(Remove(call.pre, call.key).ol, call.key, call.value).err = nil

\* A failed Update on a list that holds the other keys.
C9_Witness ==
    /\ call.op = "Update"
    /\ call.err = KeyNotFoundError
    /\ Len(ol.Rec) >= 2
    /\ ~Present(ol, call.key)

(* C10. After a successful Update(k, v2): Get(k) returns v2, the keys and  *)
(* the number of records are unchanged, the other records keep value and   *)
(* order, and the record of k is where Insert puts v2 among the others     *)
(* (the smallest position whose value is >= v2, else the end): the list is *)
(* that of Remove(k) followed by Insert(k, v2).                            *)
C10_UpdateResult ==
    (call.op = "Update" /\ call.err = nil) =>
        LET others == Others(call.pre.Rec, call.key)
            p == IF NotBelow(others, call.value) = {}
                 THEN Len(others)
                 ELSE MinOf(NotBelow(others, call.value))
        IN  /\ Get(ol, call.key) = [value |-> call.value, err |-> nil]
            /\ DOMAIN ol.Bookkeeping = DOMAIN call.pre.Bookkeeping
            /\ KeysOf(ol.Rec) = KeysOf(call.pre.Rec)
            /\ Len(ol.Rec) = Len(call.pre.Rec)
            /\ Others(ol.Rec, call.key) = others
            /\ PlacedAt(ol.Rec, others, p, Record(call.key, call.value))
            /\ ol = Insert(Remove(call.pre, call.key).ol, call.key, call.value).ol

\* An Update that gives a key a new value and moves its record from first to last.
C10_Witness ==
    /\ call.op = "Update"
    /\ call.err = nil
    /\ Len(ol.Rec) = 3
    /\ At(call.pre.Rec, 0).Key = call.key
    /\ At(ol.Rec, 2).Key = call.key
    /\ Get(call.pre, call.key).value # call.value

\* The position (from 0) of the record of `key` in rec.
IndexOf(rec, key) == CHOOSE i \in 0..Len(rec) - 1 : At(rec, i).Key = key

\* The value rec holds for `key`.
ValueOf(rec, key) == At(rec, IndexOf(rec, key)).Value

(* C11. Merge reports no error, and the keys of the receiver after it are  *)
(* the keys it had together with the keys of the source: a key the         *)
(* receiver had keeps the receiver's value (the record of the source is    *)
(* dropped), a key of the source the receiver did not have is added with   *)
(* the value of the source.  Receiver {a->1} merged with {a->2, b->3}      *)
(* gives {a->1, b->3}.                                                     *)
C11_MergeUnion ==
    call.op = "Merge" =>
        /\ call.err = nil
        /\ KeysOf(ol.Rec) = KeysOf(call.pre.Rec) \cup KeysOf(call.source.Rec)
        /\ DOMAIN ol.Bookkeeping = KeysOf(ol.Rec)
        /\ \A k \in KeysOf(call.pre.Rec) :
              ValueOf(ol.Rec, k) = ValueOf(call.pre.Rec, k)
        /\ \A k \in KeysOf(call.source.Rec) \ KeysOf(call.pre.Rec) :
              ValueOf(ol.Rec, k) = ValueOf(call.source.Rec, k)

\* The example with the values 0, 1, 2: {a->0} merged with {a->1, b->2}.
C11_Witness ==
    /\ call.op = "Merge"
    /\ call.pre.Rec = <<Record("a", 0)>>
    /\ call.source.Rec = <<Record("a", 1), Record("b", 2)>>
    /\ ol.Rec = <<Record("a", 0), Record("b", 2)>>

(* C12. Merge leaves the source as it was: when the source is another list *)
(* than the receiver, its Rec and its Bookkeeping after the call are those *)
(* before the call.                                                        *)
C12_SourceUnchanged ==
    (call.op = "Merge" /\ ~call.self) =>
        /\ call.after.Rec = call.source.Rec
        /\ call.after.Bookkeeping = call.source.Bookkeeping

\* A Merge that changed the receiver, from a source of two records.
C12_Witness ==
    /\ call.op = "Merge"
    /\ ~call.self
    /\ Len(call.source.Rec) = 2
    /\ ol # call.pre
    /\ call.after = call.source

ValuesOf(rec) == {rec[i].Value : i \in 1..Len(rec)}

MaxOf(S) == CHOOSE x \in S : \A y \in S : x >= y

(* C13. In every reachable state with records, GetLowest returns the least *)
(* and GetHighest the greatest of the values of the records of the list    *)
(* (after inserting 7, 3, 9, 1: 1 and 9), also after Remove, Update and    *)
(* Merge calls.                                                            *)
C13_LowestHighest ==
    /\ Len(ol.Rec) > 0 =>
          /\ GetLowest(ol) = [value |-> MinOf(ValuesOf(ol.Rec)), err |-> nil]
          /\ GetHighest(ol) = [value |-> MaxOf(ValuesOf(ol.Rec)), err |-> nil]
    /\ (call.op = "GetLowest" /\ Len(call.pre.Rec) > 0) =>
          /\ call.err = nil
          /\ call.ret = MinOf(ValuesOf(call.pre.Rec))
    /\ (call.op = "GetHighest" /\ Len(call.pre.Rec) > 0) =>
          /\ call.err = nil
          /\ call.ret = MaxOf(ValuesOf(call.pre.Rec))

\* GetHighest on a list of three different values returns the greatest.
C13_Witness ==
    /\ call.op = "GetHighest"
    /\ Len(ol.Rec) = 3
    /\ Cardinality(ValuesOf(ol.Rec)) = 3
    /\ call.ret = MaxValue
    /\ GetLowest(ol).value = 0

\* The error the specification wants for a list with no records.
EmptyContainerError == "empty container"

(* C14. GetLowest and GetHighest on a list with no records (new, or        *)
(* emptied by Remove) return an EmptyContainerError to the caller; they do *)
(* not index the first or last element of an empty sequence.               *)
C14_EmptyContainer ==
    (call.op \in {"GetLowest", "GetHighest"} /\ Len(call.pre.Rec) = 0) =>
        call.err = EmptyContainerError

\* The records of rec whose value is `value`, in their order.
WithValue(rec, value) == SelectSeq(rec, LAMBDA r : r.Value = value)

(* C15. Tie-break: a new record whose value equals that of records of the  *)
(* list is placed before all of them; so the keys inserted with one value  *)
(* stand in the reverse of the order of their insertion, and x, y, z       *)
(* inserted in that order with the value 5 into an empty list give the     *)
(* order z, y, x.                                                          *)
C15_TieBreak ==
    (call.op = "Insert" /\ call.err = nil) =>
        /\ WithValue(ol.Rec, call.value) =
              <<Record(call.key, call.value)>> \o WithValue(call.pre.Rec, call.value)
        /\ \A i \in 0..Len(call.pre.Rec) - 1 :
              At(call.pre.Rec, i).Value = call.value =>
                  IndexOf(ol.Rec, call.key) < IndexOf(ol.Rec, At(call.pre.Rec, i).Key)
        /\ \A v \in Values :
              ( /\ call.pre.Rec = <<Record("b", v), Record("a", v)>>
                /\ call.key = "c"
                /\ call.value = v )
              => ol.Rec = <<Record("c", v), Record("b", v), Record("a", v)>>

\* The third of three keys of one value inserted: c goes before b, b is before a.
C15_Witness ==
    /\ call.op = "Insert"
    /\ call.err = nil
    /\ call.pre.Rec = <<Record("b", MaxValue), Record("a", MaxValue)>>
    /\ ol.Rec = <<Record("c", MaxValue), Record("b", MaxValue), Record("a", MaxValue)>>

(* C16, as the specification words it. Insert puts the new record at the   *)
(* end of the list when the new value is greater than or equal to every    *)
(* value of the list, or the list is empty.                                *)
C16_AppendWhenNotBelowAll ==
    ( /\ call.op = "Insert"
      /\ call.err = nil
      /\ \A i \in 0..Len(call.pre.Rec) - 1 : call.value >= At(call.pre.Rec, i).Value )
    => ol.Rec = Append(call.pre.Rec, Record(call.key, call.value))

(* C16, amended. Insert puts the new record at the end of the list when no *)
(* position of the list holds a value >= the new value: the new value is   *)
(* greater than every value of the list, or the list is empty.  A new      *)
(* value equal to the greatest value of the list is not appended: it goes  *)
(* before the first record of that value.                                  *)
C16_AppendWhenAboveAll ==
    (call.op = "Insert" /\ call.err = nil) =>
        /\ (\A i \in 0..Len(call.pre.Rec) - 1 : call.value > At(call.pre.Rec, i).Value)
              => ol.Rec = Append(call.pre.Rec, Record(call.key, call.value))
        /\ ( /\ Len(call.pre.Rec) > 0
             /\ call.value = MaxOf(ValuesOf(call.pre.Rec)) )
              => /\ At(ol.Rec, Len(ol.Rec) - 1) # Record(call.key, call.value)
                 /\ At(ol.Rec, IndexOf(ol.Rec, call.key) + 1).Value = call.value

\* A value above the two values of the list, appended.
C16_Witness ==
    /\ call.op = "Insert"
    /\ call.err = nil
    /\ Len(call.pre.Rec) = 2
    /\ call.value > At(call.pre.Rec, 1).Value
    /\ At(ol.Rec, 2) = Record(call.key, call.value)

\* The set of the records of rec.
RecordsOf(rec) == {rec[i] : i \in 1..Len(rec)}

\* The keys a Merge added to the receiver.
Added == KeysOf(call.source.Rec) \ KeysOf(call.pre.Rec)

(* C17. Merge does not keep the order of the source among ties: records of *)
(* the source that share a value and are all added to the receiver stand   *)
(* in the receiver in the reverse of their order in the source, and before *)
(* every record of that value the receiver had.  So a Merge into an empty  *)
(* receiver gives the records of the source, and a sequence equal to the   *)
(* source's only if no two records of the source have the same value.      *)
C17_MergeTies ==
    (call.op = "Merge" /\ ~call.self) =>
        /\ \A i, j \in 0..Len(call.source.Rec) - 1 :
              ( /\ i < j
                /\ At(call.source.Rec, i).Value = At(call.source.Rec, j).Value
                /\ At(call.source.Rec, i).Key \in Added
                /\ At(call.source.Rec, j).Key \in Added )
              => IndexOf(ol.Rec, At(call.source.Rec, j).Key)
                     < IndexOf(ol.Rec, At(call.source.Rec, i).Key)
        /\ \A k \in Added : \A i \in 0..Len(call.pre.Rec) - 1 :
              At(call.pre.Rec, i).Value = ValueOf(call.source.Rec, k)
              => IndexOf(ol.Rec, k) < IndexOf(ol.Rec, At(call.pre.Rec, i).Key)
        /\ call.pre = New =>
              /\ RecordsOf(ol.Rec) = RecordsOf(call.source.Rec)
              /\ Len(ol.Rec) = Len(call.source.Rec)
              /\ ol.Rec = call.source.Rec =>
                    Cardinality(ValuesOf(call.source.Rec)) = Len(call.source.Rec)

\* Two new keys of one value merged into a receiver that holds that value.
C17_Witness ==
    /\ call.op = "Merge"
    /\ ~call.self
    /\ Len(call.pre.Rec) = 1
    /\ Len(call.source.Rec) = 2
    /\ ValuesOf(call.source.Rec) = ValuesOf(call.pre.Rec)
    /\ ol.Rec = <<At(call.source.Rec, 1), At(call.source.Rec, 0), At(call.pre.Rec, 0)>>

(* C18. A list merged into itself: the call ends and leaves Rec and        *)
(* Bookkeeping as they were, every Insert of the loop being rejected as a  *)
(* duplicate.  And Merge is idempotent: Merge(source) a second time with   *)
(* the same source changes nothing.                                        *)
C18_MergeIdempotent ==
    /\ (call.op = "Merge" /\ call.self) =>
          /\ ol.Rec = call.pre.Rec
          /\ ol.Bookkeeping = call.pre.Bookkeeping
          /\ \A i \in 0..Len(call.pre.Rec) - 1 :
                Insert(call.pre, At(call.pre.Rec, i).Key, At(call.pre.Rec, i).Value)
                    = [ol |-> call.pre, err |-> DuplicateKeyError]
    /\ call.op = "Merge" =>
          Merge([ol |-> ol, source |-> call.after], "ol", "source").ol = ol

\* A list of three records, two of one value, merged into itself.
C18_Witness ==
    /\ call.op = "Merge"
    /\ call.self
    /\ Len(call.pre.Rec) = 3
    /\ Cardinality(ValuesOf(call.pre.Rec)) = 2
    /\ ol = call.pre

(* C19. Insert and Remove are inverse: from any reachable state and for    *)
(* any key k not present, a successful Insert(k, v) followed at once by    *)
(* Remove(k) gives back the Rec (same records, same order) and the         *)
(* Bookkeeping of before the Insert.                                       *)
C19_InsertRemoveInverse ==
    (call.op = "Insert" /\ call.err = nil) =>
        /\ Remove(ol, call.key).err = nil
        /\ Remove(ol, call.key).ol.Rec = call.pre.Rec
        /\ Remove(ol, call.key).ol.Bookkeeping = call.pre.Bookkeeping

\* An Insert between two records, the record after it of the inserted value.
C19_Witness ==
    /\ call.op = "Insert"
    /\ call.err = nil
    /\ Len(call.pre.Rec) = 2
    /\ IndexOf(ol.Rec, call.key) = 1
    /\ At(call.pre.Rec, 1).Value = call.value
    /\ Remove(ol, call.key).ol = call.pre

====
